---- MODULE Spec2Model ----
(***************************************************************************)
(* Model of src/cuda/z80_common.h: the host-side Z80 register/flag         *)
(* emulator (flag tables, ALU / rotate / 16-bit engines, the opcode        *)
(* dispatcher h_exec_instruction, h_exec_seq, h_fingerprint and            *)
(* h_states_equal).                                                        *)
(***************************************************************************)
EXTENDS Integers, Sequences, FiniteSets, TLC

VARIABLES
    h_sz53, h_sz53p, h_parity,  \* the three static flag tables (uint8_t[256])
    tbl_pc, tbl_i,              \* init_tables: position and loop counter i
    s,                          \* the Z80State an instruction is executed on
    pre,                        \* the state s had when the call was made
    op, imm,                    \* arguments of the h_exec_instruction call
    pc,                         \* position of the caller of h_exec_instruction
    matched, invoked,           \* dispatcher tests that matched / engine operations invoked
    h_test_vectors,             \* the 8 seed states (static const Z80State[8])
    ops, imms, n,               \* per invocation of h_fingerprint: its arguments
    inv                         \* per invocation of h_fingerprint: pc, v, i, s, fp

tableVars == <<h_sz53, h_sz53p, h_parity, tbl_pc, tbl_i>>
callVars  == <<s, pre, op, imm, pc, matched, invoked>>
fpVars    == <<h_test_vectors, ops, imms, n, inv>>
vars      == <<h_sz53, h_sz53p, h_parity, tbl_pc, tbl_i, s, pre, op, imm, pc,
               matched, invoked, h_test_vectors, ops, imms, n, inv>>

(***************************************************************************)
(* Fixed-width integer arithmetic                                          *)
(***************************************************************************)
Byte == 0..255
Word == 0..65535

U8(x)  == x % 256
U16(x) == x % 65536
\* the low 17 bits of a uint32_t: every later read of such a value (& 0x10000,
\* & 0x8800, >> 8 and the uint8_t casts) looks at bits 0..16 only
Low17(x) == x % 131072

Bit(x, k) == (x \div (2^k)) % 2

\* x & y, x | y, x ^ y on naturals, bit by bit
RECURSIVE And(_, _)
And(x, y) ==
    IF x = 0 \/ y = 0 THEN 0
    ELSE (x % 2) * (y % 2) + 2 * And(x \div 2, y \div 2)

RECURSIVE Or(_, _)
Or(x, y) ==
    IF x = 0 THEN y
    ELSE IF y = 0 THEN x
    ELSE (IF (x % 2) + (y % 2) > 0 THEN 1 ELSE 0) + 2 * Or(x \div 2, y \div 2)

RECURSIVE Xor(_, _)
Xor(x, y) ==
    IF x = 0 THEN y
    ELSE IF y = 0 THEN x
    ELSE (((x % 2) + (y % 2)) % 2) + 2 * Xor(x \div 2, y \div 2)

Or3(x, y, z) == Or(Or(x, y), z)
Or4(x, y, z, w) == Or(Or(Or(x, y), z), w)
Or5(x, y, z, w, u) == Or(Or(Or(Or(x, y), z), w), u)

Shl(x, k) == x * (2^k)
Shr(x, k) == x \div (2^k)
\* ~m within an 8-bit destination
Not8(m) == 255 - U8(m)

(***************************************************************************)
(* Flag bits, registers, opcode ranges, fingerprint sizes                  *)
(***************************************************************************)
FLAG_C == 1
FLAG_N == 2
FLAG_P == 4
FLAG_V == 4
FLAG_3 == 8
FLAG_H == 16
FLAG_5 == 32
FLAG_Z == 64
FLAG_S == 128

REG_A == 0
REG_F == 1
REG_B == 2
REG_C == 3
REG_D == 4
REG_E == 5
REG_H == 6
REG_L == 7

OP_LD_RR_START == 0
OP_LD_RN_START == 49
OP_ALU_START == 56
OP_INC_START == 120
OP_DEC_START == 127
OP_RLCA == 134
OP_RRCA == 135
OP_RLA == 136
OP_RRA == 137
OP_DAA == 138
OP_CPL == 139
OP_SCF == 140
OP_CCF == 141
OP_NEG == 142
OP_NOP == 143
OP_CB_START == 144
OP_SLL_A == 193
OP_SLL_B_START == 194
OP_BIT_START == 200
OP_RES_START == 256
OP_SET_START == 312
OP_16INC_START == 368
OP_ADD_HL_START == 376
OP_EX_DE_HL == 380
OP_LD_SP_HL == 381
OP_LD_RR_NN_START == 382
OP_ADC_HL_START == 386
OP_SBC_HL_START == 390
OP_COUNT == 394

FP_SIZE == 10
NUM_VECTORS == 8
FP_LEN == FP_SIZE * NUM_VECTORS

\* struct Z80State { uint8_t r[8]; uint16_t sp; }
Z80State == [r : [0..7 -> Byte], sp : Word]

\* a C array literal, indexed from 0
Arr(q) == [k \in 0..(Len(q) - 1) |-> q[k + 1]]

MkState(q, sp) == [r |-> Arr(q), sp |-> sp]

TestVectors ==
    Arr(<< MkState(<<0, 0, 0, 0, 0, 0, 0, 0>>, 0),
           MkState(<<255, 255, 255, 255, 255, 255, 255, 255>>, 65535),
           MkState(<<1, 0, 2, 3, 4, 5, 6, 7>>, 4660),
           MkState(<<128, 1, 64, 32, 16, 8, 4, 2>>, 32768),
           MkState(<<85, 0, 170, 85, 170, 85, 170, 85>>, 21845),
           MkState(<<170, 1, 85, 170, 85, 170, 85, 170>>, 43690),
           MkState(<<15, 0, 240, 15, 240, 15, 240, 15>>, 65534),
           MkState(<<127, 1, 128, 127, 128, 127, 128, 127>>, 32767) >>)

(***************************************************************************)
(* Flag tables                                                             *)
(***************************************************************************)
h_halfcarry_add == Arr(<<0, FLAG_H, FLAG_H, FLAG_H, 0, 0, 0, FLAG_H>>)
h_halfcarry_sub == Arr(<<0, 0, FLAG_H, 0, FLAG_H, 0, FLAG_H, FLAG_H>>)
h_overflow_add  == Arr(<<0, 0, 0, FLAG_V, FLAG_V, 0, 0, 0>>)
h_overflow_sub  == Arr(<<0, FLAG_V, 0, 0, 0, 0, FLAG_V, 0>>)

\* static uint8_t h_sz53[256] etc.: zero-initialised before init_tables runs
ZeroTable == [x \in Byte |-> 0]

\* loop body of init_tables, iteration i
Sz53Entry(i) == And(U8(i), Or3(FLAG_3, FLAG_5, FLAG_S))

RECURSIVE ParityLoop(_, _, _)
ParityLoop(j, p, k) ==
    IF k = 8 THEN p
    ELSE ParityLoop(Shr(j, 1), Xor(p, And(j, 1)), k + 1)

ParityEntry(i) == IF ParityLoop(U8(i), 0, 0) = 0 THEN FLAG_P ELSE 0

Sz53pEntry(i) == Or(Sz53Entry(i), ParityEntry(i))

\* the statements after the loop: h_sz53[0] |= FLAG_Z; h_sz53p[0] |= FLAG_Z
ZeroFix(t) == [t EXCEPT ![0] = Or(t[0], FLAG_Z)]

\* init_tables run from start to end
BuiltSz53   == ZeroFix([x \in Byte |-> Sz53Entry(x)])
BuiltParity == [x \in Byte |-> ParityEntry(x)]
BuiltSz53p  == ZeroFix([x \in Byte |-> Sz53pEntry(x)])

(***************************************************************************)
(* Register mapping tables                                                 *)
(***************************************************************************)
LD_FULL_SRC_H ==
    Arr(<< REG_B, REG_C, REG_D, REG_E, REG_H, REG_L, REG_A,
           REG_A, REG_B, REG_C, REG_D, REG_E, REG_H, REG_L,
           REG_A, REG_B, REG_C, REG_D, REG_E, REG_H, REG_L,
           REG_A, REG_B, REG_C, REG_D, REG_E, REG_H, REG_L,
           REG_A, REG_B, REG_C, REG_D, REG_E, REG_H, REG_L,
           REG_A, REG_B, REG_C, REG_D, REG_E, REG_H, REG_L,
           REG_A, REG_B, REG_C, REG_D, REG_E, REG_H, REG_L >>)
LD_DST_H     == Arr(<<REG_A, REG_B, REG_C, REG_D, REG_E, REG_H, REG_L>>)
ALU_SRC_H    == Arr(<<REG_B, REG_C, REG_D, REG_E, REG_H, REG_L, REG_A>>)
CB_REG_H     == Arr(<<REG_A, REG_B, REG_C, REG_D, REG_E, REG_H, REG_L>>)
IMM_REG_H    == Arr(<<REG_A, REG_B, REG_C, REG_D, REG_E, REG_H, REG_L>>)
INCDEC_REG_H == Arr(<<REG_A, REG_B, REG_C, REG_D, REG_E, REG_H, REG_L>>)

(***************************************************************************)
(* ALU engine                                                              *)
(***************************************************************************)
bsel_h(cond, a, b) == IF cond THEN a ELSE b

\* s.r[reg] = val
SetR(st, reg, val) == [st EXCEPT !.r[reg] = val]

\* mutant: the operand's bits shifted into the accumulator's positions
Lookup8Misshift(a, val, r) ==
    U8(Or3(Shr(And(a, 136), 3), Shr(And(val, 136), 3), U8(Shr(And(r, 136), 1))))

\* the carry-trick index built from bits 3 and 7 of A, the operand and the result
Lookup8(a, val, r) ==
    U8(Or3(Shr(And(a, 136), 3), Shr(And(val, 136), 2), U8(Shr(And(r, 136), 1))))

h_alu_add(st, val) ==
    LET r      == U16(st.r[REG_A] + val)
        lookup == Lookup8(st.r[REG_A], val, r)
        s1     == SetR(st, REG_A, U8(r))
    IN  SetR(s1, REG_F,
             U8(Or4(bsel_h(And(r, 256) # 0, FLAG_C, 0),
                    h_halfcarry_add[And(lookup, 7)],
                    h_overflow_add[Shr(lookup, 4)],
                    h_sz53[s1.r[REG_A]])))

h_alu_adc(st, val) ==
    LET r      == U16(st.r[REG_A] + val + And(st.r[REG_F], FLAG_C))
        lookup == U8(Or3(Shr(And(U16(st.r[REG_A]), 136), 3),
                         Shr(And(U16(val), 136), 2),
                         Shr(And(r, 136), 1)))
        s1     == SetR(st, REG_A, U8(r))
    IN  SetR(s1, REG_F,
             U8(Or4(bsel_h(And(r, 256) # 0, FLAG_C, 0),
                    h_halfcarry_add[And(lookup, 7)],
                    h_overflow_add[Shr(lookup, 4)],
                    h_sz53[s1.r[REG_A]])))

h_alu_sub(st, val) ==
    LET r      == U16(st.r[REG_A] - val)
        lookup == Lookup8(st.r[REG_A], val, r)
        s1     == SetR(st, REG_A, U8(r))
    IN  SetR(s1, REG_F,
             U8(Or5(bsel_h(And(r, 256) # 0, FLAG_C, 0),
                    FLAG_N,
                    h_halfcarry_sub[And(lookup, 7)],
                    h_overflow_sub[Shr(lookup, 4)],
                    h_sz53[s1.r[REG_A]])))

h_alu_sbc(st, val) ==
    LET r      == U16(st.r[REG_A] - val - And(st.r[REG_F], FLAG_C))
        lookup == Lookup8(st.r[REG_A], val, r)
        s1     == SetR(st, REG_A, U8(r))
    IN  SetR(s1, REG_F,
             U8(Or5(bsel_h(And(r, 256) # 0, FLAG_C, 0),
                    FLAG_N,
                    h_halfcarry_sub[And(lookup, 7)],
                    h_overflow_sub[Shr(lookup, 4)],
                    h_sz53[s1.r[REG_A]])))

h_alu_and(st, val) ==
    LET s1 == SetR(st, REG_A, And(st.r[REG_A], val))
    IN  SetR(s1, REG_F, U8(Or(FLAG_H, h_sz53p[s1.r[REG_A]])))

h_alu_xor(st, val) ==
    LET s1 == SetR(st, REG_A, Xor(st.r[REG_A], val))
    IN  SetR(s1, REG_F, h_sz53p[s1.r[REG_A]])

h_alu_or(st, val) ==
    LET s1 == SetR(st, REG_A, Or(st.r[REG_A], val))
    IN  SetR(s1, REG_F, h_sz53p[s1.r[REG_A]])

\* mutant: bits 3 and 5 taken from the result, as SUB does
h_alu_cp_result35(st, val) ==
    LET r      == U16(st.r[REG_A] - val)
        lookup == Lookup8(st.r[REG_A], val, r)
    IN  SetR(st, REG_F,
             U8(Or(Or5(bsel_h(And(r, 256) # 0, FLAG_C, bsel_h(r # 0, 0, FLAG_Z)),
                       FLAG_N,
                       h_halfcarry_sub[And(lookup, 7)],
                       h_overflow_sub[Shr(lookup, 4)],
                       And(U8(r), Or(FLAG_3, FLAG_5))),
                   U8(And(r, FLAG_S)))))

h_alu_cp(st, val) ==
    LET r      == U16(st.r[REG_A] - val)
        lookup == Lookup8(st.r[REG_A], val, r)
    IN  SetR(st, REG_F,
             U8(Or(Or5(bsel_h(And(r, 256) # 0, FLAG_C, bsel_h(r # 0, 0, FLAG_Z)),
                       FLAG_N,
                       h_halfcarry_sub[And(lookup, 7)],
                       h_overflow_sub[Shr(lookup, 4)],
                       And(val, Or(FLAG_3, FLAG_5))),
                   U8(And(r, FLAG_S)))))

h_alu_inc(st, reg) ==
    LET s1 == SetR(st, reg, U8(st.r[reg] + 1))
    IN  SetR(s1, REG_F,
             U8(Or4(And(s1.r[REG_F], FLAG_C),
                    bsel_h(s1.r[reg] = 128, FLAG_V, 0),
                    bsel_h(And(s1.r[reg], 15) # 0, 0, FLAG_H),
                    h_sz53[s1.r[reg]])))

\* mutant: the first flag assignment drops the incoming carry
h_alu_dec_drops_carry(st, reg) ==
    LET s1 == SetR(st, REG_F,
                   U8(Or(bsel_h(And(st.r[reg], 15) # 0, 0, FLAG_H), FLAG_N)))
        s2 == SetR(s1, reg, U8(s1.r[reg] - 1))
    IN  SetR(s2, REG_F,
             U8(Or3(s2.r[REG_F],
                    bsel_h(s2.r[reg] = 127, FLAG_V, 0),
                    h_sz53[s2.r[reg]])))

h_alu_dec(st, reg) ==
    LET s1 == SetR(st, REG_F,
                   U8(Or3(And(st.r[REG_F], FLAG_C),
                          bsel_h(And(st.r[reg], 15) # 0, 0, FLAG_H),
                          FLAG_N)))
        s2 == SetR(s1, reg, U8(s1.r[reg] - 1))
    IN  SetR(s2, REG_F,
             U8(Or3(s2.r[REG_F],
                    bsel_h(s2.r[reg] = 127, FLAG_V, 0),
                    h_sz53[s2.r[reg]])))

(***************************************************************************)
(* Bit / rotate / shift engine: each returns the new value and the state   *)
(* with the flags it left                                                  *)
(***************************************************************************)
CbRes(st, v, f) == [v |-> v, st |-> SetR(st, REG_F, U8(f))]

h_cb_rlc(st, v) ==
    LET v1 == U8(Or(Shl(v, 1), Shr(v, 7)))
    IN  CbRes(st, v1, Or(And(v1, FLAG_C), h_sz53p[v1]))

h_cb_rrc(st, v) ==
    LET f1 == And(v, FLAG_C)
        v1 == U8(Or(Shr(v, 1), Shl(v, 7)))
    IN  CbRes(st, v1, Or(f1, h_sz53p[v1]))

h_cb_rl(st, v) ==
    LET o  == v
        v1 == U8(Or(Shl(v, 1), And(st.r[REG_F], FLAG_C)))
    IN  CbRes(st, v1, Or(Shr(o, 7), h_sz53p[v1]))

h_cb_rr(st, v) ==
    LET o  == v
        v1 == U8(Or(Shr(v, 1), Shl(st.r[REG_F], 7)))
    IN  CbRes(st, v1, Or(And(o, FLAG_C), h_sz53p[v1]))

h_cb_sla(st, v) ==
    LET f1 == Shr(v, 7)
        v1 == U8(Shl(v, 1))
    IN  CbRes(st, v1, Or(f1, h_sz53p[v1]))

h_cb_sra(st, v) ==
    LET f1 == And(v, FLAG_C)
        v1 == U8(Or(And(v, 128), Shr(v, 1)))
    IN  CbRes(st, v1, Or(f1, h_sz53p[v1]))

h_cb_srl(st, v) ==
    LET f1 == And(v, FLAG_C)
        v1 == U8(Shr(v, 1))
    IN  CbRes(st, v1, Or(f1, h_sz53p[v1]))

h_cb_sll(st, v) ==
    LET f1 == Shr(v, 7)
        v1 == U8(Or(Shl(v, 1), 1))
    IN  CbRes(st, v1, Or(f1, h_sz53p[v1]))

\* s.r[reg] = h_cb_xxx(s, s.r[reg])
CbStore(res, reg) == SetR(res.st, reg, res.v)

h_exec_bit(st, val, bit) ==
    LET f1 == Or3(And(st.r[REG_F], FLAG_C), FLAG_H, And(val, Or(FLAG_3, FLAG_5)))
        f2 == IF And(val, Shl(1, bit)) = 0 THEN Or3(f1, FLAG_P, FLAG_Z) ELSE f1
        f3 == IF bit = 7 /\ And(val, 128) # 0 THEN Or(f2, FLAG_S) ELSE f2
    IN  SetR(st, REG_F, U8(f3))

(***************************************************************************)
(* 16-bit and miscellaneous engine                                         *)
(***************************************************************************)
h_exec_daa(st) ==
    LET a      == st.r[REG_A]
        f      == st.r[REG_F]
        carry0 == And(f, FLAG_C)
        add1   == IF And(f, FLAG_H) # 0 \/ And(a, 15) > 9 THEN 6 ELSE 0
        add2   == IF carry0 # 0 \/ a > 153 THEN Or(add1, 96) ELSE add1
        carry1 == IF a > 153 THEN FLAG_C ELSE carry0
        s1     == IF And(f, FLAG_N) # 0 THEN h_alu_sub(st, add2) ELSE h_alu_add(st, add2)
    IN  SetR(s1, REG_F,
             U8(Or3(And(s1.r[REG_F], Not8(Or(FLAG_C, FLAG_P))),
                    carry1,
                    h_parity[s1.r[REG_A]])))

\* ((uint16_t)s.r[REG_H] << 8) | s.r[REG_L]
HL(st) == U16(Or(Shl(st.r[REG_H], 8), st.r[REG_L]))

\* s.r[REG_H] = (uint8_t)(result >> 8); s.r[REG_L] = (uint8_t)result
SetHL(st, result) ==
    [st EXCEPT !.r[REG_H] = U8(Shr(result, 8)), !.r[REG_L] = U8(result)]

\* the 16-bit carry-trick index: bits 11 and 15 of HL, the operand and the result
Lookup16(hl, val, result) ==
    U8(Or3(Shr(And(hl, 34816), 11), Shr(And(val, 34816), 10), Shr(And(result, 34816), 9)))

h_exec_add_hl(st, val) ==
    LET hl     == HL(st)
        result == Low17(hl + val)
        hc     == U16(And(hl, 4095) + And(val, 4095))
        s1     == SetR(st, REG_F,
                       U8(Or4(And(st.r[REG_F], Or3(FLAG_S, FLAG_Z, FLAG_P)),
                              bsel_h(And(hc, 4096) # 0, FLAG_H, 0),
                              bsel_h(And(result, 65536) # 0, FLAG_C, 0),
                              And(U8(Shr(result, 8)), Or(FLAG_3, FLAG_5)))))
    IN  SetHL(s1, result)

h_exec_adc_hl(st, val) ==
    LET hl     == HL(st)
        carry  == And(st.r[REG_F], FLAG_C)
        result == Low17(hl + val + carry)
        lookup == Lookup16(hl, val, result)
        s1     == SetHL(st, result)
    IN  SetR(s1, REG_F,
             U8(Or5(bsel_h(And(result, 65536) # 0, FLAG_C, 0),
                    h_overflow_add[Shr(lookup, 4)],
                    And(s1.r[REG_H], Or3(FLAG_3, FLAG_5, FLAG_S)),
                    h_halfcarry_add[And(lookup, 7)],
                    bsel_h(Or(s1.r[REG_H], s1.r[REG_L]) # 0, 0, FLAG_Z))))

h_exec_sbc_hl(st, val) ==
    LET hl     == HL(st)
        carry  == And(st.r[REG_F], FLAG_C)
        result == Low17(hl - val - carry)
        lookup == Lookup16(hl, val, result)
        s1     == SetHL(st, result)
    IN  SetR(s1, REG_F,
             U8(Or(Or5(bsel_h(And(result, 65536) # 0, FLAG_C, 0),
                       FLAG_N,
                       h_overflow_sub[Shr(lookup, 4)],
                       And(s1.r[REG_H], Or3(FLAG_3, FLAG_5, FLAG_S)),
                       h_halfcarry_sub[And(lookup, 7)]),
                   bsel_h(Or(s1.r[REG_H], s1.r[REG_L]) # 0, 0, FLAG_Z))))

h_get_pair(st, pair) ==
    CASE pair = 0 -> U16(Or(Shl(st.r[REG_B], 8), st.r[REG_C]))
      [] pair = 1 -> U16(Or(Shl(st.r[REG_D], 8), st.r[REG_E]))
      [] pair = 2 -> U16(Or(Shl(st.r[REG_H], 8), st.r[REG_L]))
      [] pair = 3 -> st.sp
      [] OTHER    -> 0

h_set_pair(st, pair, val) ==
    CASE pair = 0 -> [st EXCEPT !.r[REG_B] = U8(Shr(val, 8)), !.r[REG_C] = U8(val)]
      [] pair = 1 -> [st EXCEPT !.r[REG_D] = U8(Shr(val, 8)), !.r[REG_E] = U8(val)]
      [] pair = 2 -> [st EXCEPT !.r[REG_H] = U8(Shr(val, 8)), !.r[REG_L] = U8(val)]
      [] pair = 3 -> [st EXCEPT !.sp = val]
      [] OTHER    -> st

\* the single-byte miscellaneous opcodes written inline in h_exec_instruction
SZP == Or3(FLAG_P, FLAG_Z, FLAG_S)
F35 == Or(FLAG_3, FLAG_5)

ExecRLCA(st) ==
    LET s1 == SetR(st, REG_A, U8(Or(Shl(st.r[REG_A], 1), Shr(st.r[REG_A], 7))))
    IN  SetR(s1, REG_F, U8(Or(And(s1.r[REG_F], SZP),
                              And(s1.r[REG_A], Or3(FLAG_C, FLAG_3, FLAG_5)))))

ExecRRCA(st) ==
    LET s1 == SetR(st, REG_F, U8(Or(And(st.r[REG_F], SZP), And(st.r[REG_A], FLAG_C))))
        s2 == SetR(s1, REG_A, U8(Or(Shr(s1.r[REG_A], 1), Shl(s1.r[REG_A], 7))))
    IN  SetR(s2, REG_F, U8(Or(s2.r[REG_F], And(s2.r[REG_A], F35))))

ExecRLA(st) ==
    LET o  == st.r[REG_A]
        s1 == SetR(st, REG_A, U8(Or(Shl(st.r[REG_A], 1), And(st.r[REG_F], FLAG_C))))
    IN  SetR(s1, REG_F, U8(Or3(And(s1.r[REG_F], SZP), And(s1.r[REG_A], F35), Shr(o, 7))))

ExecRRA(st) ==
    LET o  == st.r[REG_A]
        s1 == SetR(st, REG_A, U8(Or(Shr(st.r[REG_A], 1), Shl(st.r[REG_F], 7))))
    IN  SetR(s1, REG_F, U8(Or3(And(s1.r[REG_F], SZP), And(s1.r[REG_A], F35), And(o, FLAG_C))))

ExecCPL(st) ==
    LET s1 == SetR(st, REG_A, U8(Xor(st.r[REG_A], 255)))
    IN  SetR(s1, REG_F,
             U8(Or4(And(s1.r[REG_F], Or4(FLAG_C, FLAG_P, FLAG_Z, FLAG_S)),
                    And(s1.r[REG_A], F35), FLAG_N, FLAG_H)))

ExecSCF(st) ==
    SetR(st, REG_F, U8(Or3(And(st.r[REG_F], SZP), And(st.r[REG_A], F35), FLAG_C)))

ExecCCF(st) ==
    LET c  == And(st.r[REG_F], FLAG_C)
        f1 == Or(And(st.r[REG_F], SZP), And(st.r[REG_A], F35))
    IN  SetR(st, REG_F, U8(IF c # 0 THEN Or(f1, FLAG_H) ELSE Or(f1, FLAG_C)))

ExecNEG(st) ==
    LET o == st.r[REG_A]
    IN  h_alu_sub(SetR(st, REG_A, 0), o)

ExecEX_DE_HL(st) ==
    LET td == st.r[REG_D]
        te == st.r[REG_E]
    IN  [st EXCEPT !.r[REG_D] = st.r[REG_H], !.r[REG_E] = st.r[REG_L],
                   !.r[REG_H] = td, !.r[REG_L] = te]

ExecLD_SP_HL(st) == [st EXCEPT !.sp = HL(st)]

(***************************************************************************)
(* Opcode dispatcher                                                       *)
(***************************************************************************)
\* the conditions of the if statements of h_exec_instruction, in source order,
\* exactly as written (o is the uint16_t op)
NumTests == 28

\* mutant: the CB range test with < in place of <=
CbTestExclusive(o) == o >= OP_CB_START /\ o < 192

\* if (op >= OP_CB_START && op <= 192)
CbTest(o) == o >= OP_CB_START /\ o <= 192

TestCond(k, o) ==
    CASE k = 1  -> o < 49
      [] k = 2  -> o < 56
      [] k = 3  -> o < 120
      [] k = 4  -> o < 127
      [] k = 5  -> o < 134
      [] k = 6  -> o = OP_RLCA
      [] k = 7  -> o = OP_RRCA
      [] k = 8  -> o = OP_RLA
      [] k = 9  -> o = OP_RRA
      [] k = 10 -> o = OP_DAA
      [] k = 11 -> o = OP_CPL
      [] k = 12 -> o = OP_SCF
      [] k = 13 -> o = OP_CCF
      [] k = 14 -> o = OP_NEG
      [] k = 15 -> o = OP_NOP
      [] k = 16 -> CbTest(o)
      [] k = 17 -> o = OP_SLL_A
      [] k = 18 -> o >= OP_SLL_B_START /\ o < 200
      [] k = 19 -> o >= OP_BIT_START /\ o < OP_RES_START
      [] k = 20 -> o >= OP_RES_START /\ o < OP_SET_START
      [] k = 21 -> o >= OP_SET_START /\ o < OP_16INC_START
      [] k = 22 -> o >= OP_16INC_START /\ o < OP_ADD_HL_START
      [] k = 23 -> o >= OP_ADD_HL_START /\ o < OP_EX_DE_HL
      [] k = 24 -> o = OP_EX_DE_HL
      [] k = 25 -> o = OP_LD_SP_HL
      [] k = 26 -> o >= OP_LD_RR_NN_START /\ o < OP_ADC_HL_START
      [] k = 27 -> o >= OP_ADC_HL_START /\ o < OP_SBC_HL_START
      [] k = 28 -> o >= OP_SBC_HL_START /\ o < OP_COUNT
      [] OTHER  -> FALSE

\* every matching test ends in a return: test k is evaluated only when no
\* earlier test matched
RECURSIVE FirstMatch(_, _)
FirstMatch(k, o) ==
    IF k > NumTests THEN 0
    ELSE IF TestCond(k, o) THEN k
    ELSE FirstMatch(k + 1, o)

\* the if statement whose body runs for opcode o; 0 when control falls off the
\* end of the function
Branch(o) == FirstMatch(1, o)

\* the tests that were evaluated and found true during one call
MatchedTests(o) ==
    {k \in 1..NumTests : TestCond(k, o) /\ \A j \in 1..(k - 1) : ~TestCond(j, o)}

\* case labels of the two switch statements
AluCases == 0..7
CbCases  == 0..6

\* mutant: the immediate taken one source slot early
AluValSlot6(st, src_idx, im) == IF src_idx < 6 THEN st.r[ALU_SRC_H[src_idx]] ELSE U8(im)

\* uint8_t val = (src_idx < 7) ? s.r[ALU_SRC_H[src_idx]] : (uint8_t)imm
AluVal(st, src_idx, im) == IF src_idx < 7 THEN st.r[ALU_SRC_H[src_idx]] ELSE U8(im)

ExecAlu(st, o, im) ==
    LET alu_op  == (o - 56) \div 8
        src_idx == (o - 56) % 8
        val     == AluVal(st, src_idx, im)
    IN  CASE alu_op = 0 -> h_alu_add(st, val)
          [] alu_op = 1 -> h_alu_adc(st, val)
          [] alu_op = 2 -> h_alu_sub(st, val)
          [] alu_op = 3 -> h_alu_sbc(st, val)
          [] alu_op = 4 -> h_alu_and(st, val)
          [] alu_op = 5 -> h_alu_xor(st, val)
          [] alu_op = 6 -> h_alu_or(st, val)
          [] alu_op = 7 -> h_alu_cp(st, val)
          [] OTHER      -> st

ExecCb(st, o) ==
    LET cb_op == (o - OP_CB_START) \div 7
        reg   == CB_REG_H[(o - OP_CB_START) % 7]
    IN  CASE cb_op = 0 -> CbStore(h_cb_rlc(st, st.r[reg]), reg)
          [] cb_op = 1 -> CbStore(h_cb_rrc(st, st.r[reg]), reg)
          [] cb_op = 2 -> CbStore(h_cb_rl(st, st.r[reg]), reg)
          [] cb_op = 3 -> CbStore(h_cb_rr(st, st.r[reg]), reg)
          [] cb_op = 4 -> CbStore(h_cb_sla(st, st.r[reg]), reg)
          [] cb_op = 5 -> CbStore(h_cb_sra(st, st.r[reg]), reg)
          [] cb_op = 6 -> CbStore(h_cb_srl(st, st.r[reg]), reg)
          [] OTHER     -> st

\* mutant: the decrement half starts one opcode late
Exec16IncDecLate(st, o) ==
    LET idx  == o - OP_16INC_START
        pair == idx % 4
        dec  == idx > 4
        v    == h_get_pair(st, pair)
    IN  h_set_pair(st, pair, U16(IF dec THEN v - 1 ELSE v + 1))

Exec16IncDec(st, o) ==
    LET idx  == o - OP_16INC_START
        pair == idx % 4
        dec  == idx >= 4
        v    == h_get_pair(st, pair)
    IN  h_set_pair(st, pair, U16(IF dec THEN v - 1 ELSE v + 1))

ExecBit(st, o) ==
    LET idx == o - OP_BIT_START
    IN  h_exec_bit(st, st.r[CB_REG_H[idx % 7]], idx \div 7)

ExecRes(st, o) ==
    LET idx == o - OP_RES_START
        reg == CB_REG_H[idx % 7]
    IN  SetR(st, reg, And(st.r[reg], Not8(Shl(1, idx \div 7))))

ExecSet(st, o) ==
    LET idx == o - OP_SET_START
        reg == CB_REG_H[idx % 7]
    IN  SetR(st, reg, U8(Or(st.r[reg], Shl(1, idx \div 7))))

\* void h_exec_instruction(Z80State &s, uint16_t op, uint16_t imm): the state it leaves
h_exec_instruction(st, o, im) ==
    LET k == Branch(o)
    IN  CASE k = 1  -> SetR(st, LD_DST_H[o \div 7], st.r[LD_FULL_SRC_H[o]])
          [] k = 2  -> SetR(st, IMM_REG_H[o - 49], U8(im))
          [] k = 3  -> ExecAlu(st, o, im)
          [] k = 4  -> h_alu_inc(st, INCDEC_REG_H[o - 120])
          [] k = 5  -> h_alu_dec(st, INCDEC_REG_H[o - 127])
          [] k = 6  -> ExecRLCA(st)
          [] k = 7  -> ExecRRCA(st)
          [] k = 8  -> ExecRLA(st)
          [] k = 9  -> ExecRRA(st)
          [] k = 10 -> h_exec_daa(st)
          [] k = 11 -> ExecCPL(st)
          [] k = 12 -> ExecSCF(st)
          [] k = 13 -> ExecCCF(st)
          [] k = 14 -> ExecNEG(st)
          [] k = 15 -> st
          [] k = 16 -> ExecCb(st, o)
          [] k = 17 -> CbStore(h_cb_sll(st, st.r[REG_A]), REG_A)
          [] k = 18 -> LET reg == CB_REG_H[(o - OP_SLL_B_START) + 1]
                       IN  CbStore(h_cb_sll(st, st.r[reg]), reg)
          [] k = 19 -> ExecBit(st, o)
          [] k = 20 -> ExecRes(st, o)
          [] k = 21 -> ExecSet(st, o)
          [] k = 22 -> Exec16IncDec(st, o)
          [] k = 23 -> h_exec_add_hl(st, h_get_pair(st, o - OP_ADD_HL_START))
          [] k = 24 -> ExecEX_DE_HL(st)
          [] k = 25 -> ExecLD_SP_HL(st)
          [] k = 26 -> h_set_pair(st, o - OP_LD_RR_NN_START, im)
          [] k = 27 -> h_exec_adc_hl(st, h_get_pair(st, o - OP_ADC_HL_START))
          [] k = 28 -> h_exec_sbc_hl(st, h_get_pair(st, o - OP_SBC_HL_START))
          [] OTHER  -> st

\* the engine operations one call invokes, in order
AluNames == Arr(<<"add", "adc", "sub", "sbc", "and", "xor", "or", "cp">>)
CbNames  == Arr(<<"rlc", "rrc", "rl", "rr", "sla", "sra", "srl">>)
BranchNames ==
    << "ld_rr", "ld_rn", "alu", "inc", "dec", "rlca", "rrca", "rla", "rra", "daa",
       "cpl", "scf", "ccf", "neg", "nop", "cb", "sll", "sll", "bit", "res", "set",
       "inc16dec16", "add_hl", "ex_de_hl", "ld_sp_hl", "ld_rr_nn", "adc_hl", "sbc_hl" >>

Invoked(o) ==
    LET k == Branch(o)
    IN  CASE k = 0  -> << >>
          [] k = 3  -> LET alu_op == (o - 56) \div 8
                       IN  IF alu_op \in AluCases THEN <<AluNames[alu_op]>> ELSE << >>
          [] k = 16 -> LET cb_op == (o - OP_CB_START) \div 7
                       IN  IF cb_op \in CbCases THEN <<CbNames[cb_op]>> ELSE << >>
          [] OTHER  -> <<BranchNames[k]>>

(***************************************************************************)
(* Callers of h_exec_instruction                                           *)
(***************************************************************************)
\* opcodes tried: the valid range 0..OP_COUNT-1, the values just past it up to
\* MaxOpcode, and the largest uint16_t
MaxOpcode == 396
Opcodes == 0..MaxOpcode \cup {65535}

\* immediates tried (uint16_t)
Imms == {0, 255, 256, 65535}

SeedStates == {TestVectors[x] : x \in 0..(NUM_VECTORS - 1)}

\* the state init_tables leaves behind
TablesReady ==
    /\ h_sz53 = BuiltSz53
    /\ h_sz53p = BuiltSz53p
    /\ h_parity = BuiltParity
    /\ tbl_pc = "built"
    /\ tbl_i = 256

\* no h_fingerprint invocation is in progress
FpIdle ==
    /\ h_test_vectors = TestVectors
    /\ ops = << >>
    /\ imms = << >>
    /\ n = << >>
    /\ inv = << >>

NoCall(st) ==
    /\ s = st
    /\ pre = st
    /\ op = 0
    /\ imm = 0
    /\ matched = {}
    /\ invoked = << >>

\* one call h_exec_instruction(s, o, im), from entry to return; p0 is the state
\* remembered as the one before the instruction(s) under test
CallFrom(p0, o, im) ==
    /\ pre' = p0
    /\ op' = o
    /\ imm' = im
    /\ s' = h_exec_instruction(s, o, im)
    /\ matched' = MatchedTests(o)
    /\ invoked' = Invoked(o)
    /\ UNCHANGED tableVars
    /\ UNCHANGED fpVars

Call(o, im) == CallFrom(s, o, im)

Init ==
    /\ TablesReady
    /\ FpIdle
    /\ \E st \in SeedStates : NoCall(st)
    /\ pc = "start"

\* a first instruction that loads a register pair with an immediate
Load ==
    /\ pc = "start"
    /\ \E pair \in 0..3, im \in Imms : Call(OP_LD_RR_NN_START + pair, im)
    /\ pc' = "call"

\* the instruction under test: any opcode, any immediate
Execute ==
    /\ pc \in {"start", "call"}
    /\ \E o \in Opcodes, im \in Imms : Call(o, im)
    /\ pc' = "returned"

Next == Load \/ Execute

Spec == Init /\ [][Next]_vars

Returned == pc = "returned"

(***************************************************************************)
(* C1: for every opcode in [0, OP_COUNT) exactly one dispatcher test       *)
(* matches and exactly one engine operation is invoked; as the opcode      *)
(* ascends the matching test stays the same or moves to the next one, from *)
(* the first test at opcode 0 to the last at OP_COUNT-1, so the tested     *)
(* intervals are ascending, contiguous, disjoint and cover the range.      *)
(***************************************************************************)
C1_ExactlyOneInterval ==
    (Returned /\ op < OP_COUNT) =>
        /\ Cardinality(matched) = 1
        /\ Len(invoked) = 1
        /\ \E k \in 1..NumTests :
              /\ matched = {k}
              /\ (op = 0 => k = 1)
              /\ (op = OP_COUNT - 1 => k = NumTests)
              /\ (op > 0 => MatchedTests(op - 1) \in {{k - 1}, {k}})

\* the last CB-prefixed opcode (SRL L) ran through the CB switch
C1_Witness ==
    /\ Returned
    /\ op = 192
    /\ matched = {16}
    /\ invoked = <<"srl">>
    /\ s # pre

(***************************************************************************)
(* C2 (as stated): outside the 8-bit immediate loads [49, 56) and the      *)
(* 16-bit immediate loads [382, 386) the state an instruction leaves does  *)
(* not depend on the immediate.                                            *)
(***************************************************************************)
ImmLoadOps == OP_LD_RN_START..(OP_ALU_START - 1) \cup OP_LD_RR_NN_START..(OP_ADC_HL_START - 1)

\* the eighth source slot of each of the 8 ALU families: ADD A,n ... CP n
AluImmOps == {OP_ALU_START + 8 * f + 7 : f \in 0..7}

ImmIgnoredOutside(consumers) ==
    (Returned /\ op \notin consumers) =>
        \A im2 \in Imms : h_exec_instruction(pre, op, im2) = s

C2_Original == ImmIgnoredOutside(ImmLoadOps)

(***************************************************************************)
(* C2 (amended): outside the 8-bit immediate loads, the 16-bit immediate   *)
(* loads and the eight ALU-immediate opcodes 63, 71, ..., 119 the state an *)
(* instruction leaves does not depend on the immediate.                    *)
(***************************************************************************)
C2_ImmIgnored == ImmIgnoredOutside(ImmLoadOps \cup AluImmOps)

\* ADD A,A (the last register source slot) changed the state and ignored a
\* non-zero immediate
C2_Witness ==
    /\ Returned
    /\ op = OP_ALU_START + 6
    /\ imm = 255
    /\ s # pre
    /\ s = h_exec_instruction(pre, op, 0)

(***************************************************************************)
(* C3: a call with an opcode outside the valid range (op >= OP_COUNT) does *)
(* not return normally.                                                    *)
(***************************************************************************)
C3_FailFast == Returned => op < OP_COUNT

(***************************************************************************)
(* C9: an opcode in [368, 376) changes the addressed pair by +1 (first     *)
(* four) or -1 (last four) modulo 65536 and leaves A, F and the other      *)
(* pairs as they were.                                                     *)
(***************************************************************************)
PairValue(st, pair) ==
    CASE pair = 0 -> st.r[REG_B] * 256 + st.r[REG_C]
      [] pair = 1 -> st.r[REG_D] * 256 + st.r[REG_E]
      [] pair = 2 -> st.r[REG_H] * 256 + st.r[REG_L]
      [] OTHER    -> st.sp

C9_PairIncDec ==
    (Returned /\ op \in OP_16INC_START..(OP_ADD_HL_START - 1)) =>
        LET pair  == (op - OP_16INC_START) % 4
            delta == IF op - OP_16INC_START < 4 THEN 1 ELSE -1
        IN  /\ PairValue(s, pair) = (PairValue(pre, pair) + delta) % 65536
            /\ \A q \in 0..3 \ {pair} : PairValue(s, q) = PairValue(pre, q)
            /\ s.r[REG_A] = pre.r[REG_A]
            /\ s.r[REG_F] = pre.r[REG_F]
            /\ s \in Z80State

\* DEC BC on BC = 0x0000 wrapped to 0xFFFF
C9_Witness ==
    /\ Returned
    /\ op = OP_16INC_START + 4
    /\ PairValue(pre, 0) = 0
    /\ PairValue(s, 0) = 65535

(***************************************************************************)
(* 8-bit ALU on every accumulator, operand and carry-in                    *)
(***************************************************************************)
\* ADD A,B  ADC A,B  SUB B  SBC A,B  CP B
AluTestOps == {OP_ALU_START + 8 * f : f \in {0, 1, 2, 3, 7}}

InitAlu ==
    /\ TablesReady
    /\ FpIdle
    /\ \E a \in Byte, v \in Byte, f \in {0, FLAG_C} :
          NoCall(MkState(<<a, f, v, 3, 4, 5, 6, 7>>, 4660))
    /\ pc = "call"

ExecuteAlu ==
    /\ pc = "call"
    /\ \E o \in AluTestOps : Call(o, 0)
    /\ pc' = "returned"

NextAlu == ExecuteAlu

SpecAlu == InitAlu /\ [][NextAlu]_vars

Signed8(x) == IF x >= 128 THEN x - 256 ELSE x

\* the flag byte of an 8-bit add (a + v + cin) or subtract (a - v - cin),
\* from the arithmetic meaning of each flag
ArithFlags(isSub, a, v, cin) ==
    LET t     == IF isSub THEN a - v - cin ELSE a + v + cin
        res   == t % 256
        carry == IF isSub THEN t < 0 ELSE t > 255
        half  == IF isSub THEN (a % 16) - (v % 16) - cin < 0
                          ELSE (a % 16) + (v % 16) + cin > 15
        sres  == IF isSub THEN Signed8(a) - Signed8(v) - cin
                          ELSE Signed8(a) + Signed8(v) + cin
        ovf   == sres < -128 \/ sres > 127
    IN  (IF carry THEN 1 ELSE 0) + (IF isSub THEN 2 ELSE 0) + (IF ovf THEN 4 ELSE 0)
        + 8 * Bit(res, 3) + (IF half THEN 16 ELSE 0) + 32 * Bit(res, 5)
        + (IF res = 0 THEN 64 ELSE 0) + (IF res >= 128 THEN 128 ELSE 0)

(***************************************************************************)
(* C6: the flags ADD, ADC, SUB and SBC leave through the carry-trick       *)
(* tables equal the arithmetic definitions of carry, half-carry, overflow, *)
(* negate and sign/zero/bits 3,5, for every accumulator, operand and       *)
(* incoming carry.                                                         *)
(***************************************************************************)
C6_AluFlags ==
    (Returned /\ op \in {OP_ALU_START + 8 * f : f \in 0..3}) =>
        LET f   == (op - OP_ALU_START) \div 8
            cin == IF f \in {1, 3} THEN pre.r[REG_F] % 2 ELSE 0
        IN  s.r[REG_F] = ArithFlags(f \in {2, 3}, pre.r[REG_A], pre.r[REG_B], cin)

\* SBC A,B with A = 0x80, B = 0, carry set: -128 - 0 - 1 overflows
C6_Witness ==
    /\ Returned
    /\ op = OP_ALU_START + 24
    /\ pre.r[REG_A] = 128 /\ pre.r[REG_B] = 0 /\ pre.r[REG_F] = FLAG_C
    /\ s.r[REG_A] = 127
    /\ s.r[REG_F] = 62

(***************************************************************************)
(* C7: CP leaves every register but F (and the pair register) unchanged;   *)
(* its flag byte equals the one SUB produces on the same inputs except for *)
(* bits 3 and 5, which come from the operand; with operand = accumulator   *)
(* zero is set, carry clear and negate set.                                *)
(***************************************************************************)
C7_CpLikeSub ==
    (Returned /\ op = OP_ALU_START + 56) =>
        LET v    == pre.r[REG_B]
            subF == h_alu_sub(pre, v).r[REG_F]
        IN  /\ \A reg \in (0..7) \ {REG_F} : s.r[reg] = pre.r[reg]
            /\ s.sp = pre.sp
            /\ s.r[REG_F] = And(subF, 215) + And(v, 40)
            /\ (v = pre.r[REG_A] =>
                   /\ And(s.r[REG_F], FLAG_Z) = FLAG_Z
                   /\ And(s.r[REG_F], FLAG_C) = 0
                   /\ And(s.r[REG_F], FLAG_N) = FLAG_N)

\* CP B with A = B = 0x28: zero and negate set, bits 3 and 5 from the operand
C7_Witness ==
    /\ Returned
    /\ op = OP_ALU_START + 56
    /\ pre.r[REG_A] = 40 /\ pre.r[REG_B] = 40
    /\ s.r[REG_A] = 40
    /\ s.r[REG_F] = 106

(***************************************************************************)
(* INC r immediately followed by DEC r                                     *)
(***************************************************************************)
InitIncDec ==
    /\ TablesReady
    /\ FpIdle
    /\ \E st \in SeedStates : NoCall(st)
    /\ pc = "start"

\* LD r,n: puts any byte into any of the 7 registers first
LoadReg ==
    /\ pc = "start"
    /\ \E x \in 0..6, im \in Byte : Call(OP_LD_RN_START + x, im)
    /\ pc' = "call"

Inc ==
    /\ pc \in {"start", "call"}
    /\ \E x \in 0..6 : Call(OP_INC_START + x, 0)
    /\ pc' = "inc"

\* DEC of the register the preceding INC addressed
Dec ==
    /\ pc = "inc"
    /\ CallFrom(pre, op - OP_INC_START + OP_DEC_START, 0)
    /\ pc' = "returned"

NextIncDec == LoadReg \/ Inc \/ Dec

SpecIncDec == InitIncDec /\ [][NextIncDec]_vars

(***************************************************************************)
(* C8: INC r (opcode 120+x) immediately followed by DEC r (opcode 127+x),  *)
(* r one of A, B, C, D, E, H, L, restores r, leaves every register other   *)
(* than F and the pair register unchanged, and leaves the carry flag as it *)
(* was before the two instructions.                                        *)
(***************************************************************************)
C8_IncDecRestores ==
    (Returned /\ op \in OP_DEC_START..(OP_DEC_START + 6)) =>
        LET x   == op - OP_DEC_START
            reg == IF x = 0 THEN REG_A ELSE x + 1
        IN  /\ s.r[reg] = pre.r[reg]
            /\ \A q \in (0..7) \ {REG_F} : s.r[q] = pre.r[q]
            /\ s.sp = pre.sp
            /\ s.r[REG_F] % 2 = pre.r[REG_F] % 2

\* INC L; DEC L on L = 0xFF with carry set: L is 0xFF again, carry still set,
\* negate set by the DEC
C8_Witness ==
    /\ Returned
    /\ op = OP_DEC_START + 6
    /\ pre.r[REG_L] = 255 /\ pre.r[REG_F] % 2 = 1
    /\ s.r[REG_L] = 255
    /\ s.r[REG_F] % 2 = 1
    /\ And(s.r[REG_F], FLAG_N) = FLAG_N
    /\ s.r[REG_F] # pre.r[REG_F]

(***************************************************************************)
(* init_tables, statement by statement, and a caller that builds the       *)
(* tables first                                                            *)
(***************************************************************************)
\* mutant: the loop stops one entry early
InitLoopCondShort(x) == x < 255

\* for (int i = 0; i < 256; i++)
InitLoopCond(x) == x < 256

InitTables ==
    /\ h_sz53 = ZeroTable
    /\ h_sz53p = ZeroTable
    /\ h_parity = ZeroTable
    /\ tbl_pc = "unbuilt"
    /\ tbl_i = 0
    /\ FpIdle
    /\ \E st \in SeedStates : NoCall(st)
    /\ pc = "start"

\* init_tables() is entered: int i = 0
InitTablesEnter ==
    /\ tbl_pc = "unbuilt"
    /\ tbl_pc' = "loop"
    /\ tbl_i' = 0
    /\ UNCHANGED <<h_sz53, h_sz53p, h_parity>>
    /\ UNCHANGED callVars
    /\ UNCHANGED fpVars

\* one iteration of the loop
InitTablesIter ==
    /\ tbl_pc = "loop"
    /\ InitLoopCond(tbl_i)
    /\ h_sz53' = [h_sz53 EXCEPT ![tbl_i] = Sz53Entry(tbl_i)]
    /\ h_parity' = [h_parity EXCEPT ![tbl_i] = ParityEntry(tbl_i)]
    /\ h_sz53p' = [h_sz53p EXCEPT ![tbl_i] = Sz53pEntry(tbl_i)]
    /\ tbl_i' = tbl_i + 1
    /\ UNCHANGED tbl_pc
    /\ UNCHANGED callVars
    /\ UNCHANGED fpVars

\* the loop ends; h_sz53[0] |= FLAG_Z; h_sz53p[0] |= FLAG_Z; return
InitTablesExit ==
    /\ tbl_pc = "loop"
    /\ ~InitLoopCond(tbl_i)
    /\ h_sz53' = ZeroFix(h_sz53)
    /\ h_sz53p' = ZeroFix(h_sz53p)
    /\ tbl_pc' = "built"
    /\ UNCHANGED <<h_parity, tbl_i>>
    /\ UNCHANGED callVars
    /\ UNCHANGED fpVars

\* the caller executes an instruction only once build_tables has returned
DriverExecute ==
    /\ tbl_pc = "built"
    /\ pc = "start"
    /\ \E o \in 0..(OP_COUNT - 1), im \in Imms : Call(o, im)
    /\ pc' = "returned"

NextTables == InitTablesEnter \/ InitTablesIter \/ InitTablesExit \/ DriverExecute

SpecTables == InitTables /\ [][NextTables]_vars

\* the tables as section 4.1 of the specification defines them
PopCount(x) == Bit(x, 0) + Bit(x, 1) + Bit(x, 2) + Bit(x, 3)
               + Bit(x, 4) + Bit(x, 5) + Bit(x, 6) + Bit(x, 7)
SpecSZ53(x) == 128 * Bit(x, 7) + 32 * Bit(x, 5) + 8 * Bit(x, 3) + (IF x = 0 THEN 64 ELSE 0)
SpecParity(x) == IF PopCount(x) % 2 = 0 THEN 4 ELSE 0

Procs == {1, 2}

\* longest instruction sequence tried
MaxLen == 2

\* instructions the sequences are built from, as (opcode, immediate):
\* NOP, INC SP, LD A,5, INC A
FpInstrs == { <<OP_NOP, 0>>, <<OP_16INC_START + 3, 0>>,
              <<OP_LD_RN_START, 5>>, <<OP_INC_START, 0>> }

\* the (ops, imms, n) argument triples: C arrays indexed from 0
Programs == UNION {[0..(k - 1) -> FpInstrs] : k \in 0..MaxLen}
OpsOf(prog)  == [x \in DOMAIN prog |-> prog[x][1]]
ImmsOf(prog) == [x \in DOMAIN prog |-> prog[x][2]]
LenOf(prog)  == Cardinality(DOMAIN prog)

\* what an uninitialised local Z80State or caller buffer may hold
JunkBytes == {0, 204}
JunkState(b) == [r |-> [x \in 0..7 |-> b], sp |-> b * 257]
JunkBuffer(b) == [x \in 0..(FP_LEN - 1) |-> b]

\* mutant: the last byte of the image is not stored
StoreImageShort(fp, off, st) ==
    [fp EXCEPT ![off + 0] = st.r[REG_A], ![off + 1] = st.r[REG_F],
               ![off + 2] = st.r[REG_B], ![off + 3] = st.r[REG_C],
               ![off + 4] = st.r[REG_D], ![off + 5] = st.r[REG_E],
               ![off + 6] = st.r[REG_H], ![off + 7] = st.r[REG_L],
               ![off + 8] = U8(Shr(st.sp, 8))]

\* mutant: the accumulator is stored in the place of the flags
StoreImageNoFlags(fp, off, st) ==
    [fp EXCEPT ![off + 0] = st.r[REG_A], ![off + 1] = st.r[REG_A],
               ![off + 2] = st.r[REG_B], ![off + 3] = st.r[REG_C],
               ![off + 4] = st.r[REG_D], ![off + 5] = st.r[REG_E],
               ![off + 6] = st.r[REG_H], ![off + 7] = st.r[REG_L],
               ![off + 8] = U8(Shr(st.sp, 8)), ![off + 9] = U8(st.sp)]

\* fp[off+0] = s.r[REG_A]; ... fp[off+9] = (uint8_t)s.sp
StoreImage(fp, off, st) ==
    [fp EXCEPT ![off + 0] = st.r[REG_A], ![off + 1] = st.r[REG_F],
               ![off + 2] = st.r[REG_B], ![off + 3] = st.r[REG_C],
               ![off + 4] = st.r[REG_D], ![off + 5] = st.r[REG_E],
               ![off + 6] = st.r[REG_H], ![off + 7] = st.r[REG_L],
               ![off + 8] = U8(Shr(st.sp, 8)), ![off + 9] = U8(st.sp)]

\* bool h_states_equal(const Z80State &a, const Z80State &b, uint8_t dead_flags)
h_states_equal(a, b, dead_flags) ==
    /\ a.r[REG_A] = b.r[REG_A]
    /\ And(a.r[REG_F], Not8(dead_flags)) = And(b.r[REG_F], Not8(dead_flags))
    /\ a.r[REG_B] = b.r[REG_B] /\ a.r[REG_C] = b.r[REG_C]
    /\ a.r[REG_D] = b.r[REG_D] /\ a.r[REG_E] = b.r[REG_E]
    /\ a.r[REG_H] = b.r[REG_H] /\ a.r[REG_L] = b.r[REG_L]
    /\ a.sp = b.sp

\* the caller variables when only h_fingerprint runs
CallerIdle ==
    /\ NoCall(TestVectors[0])
    /\ pc = "start"

\* invocation p entered with its arguments; its local s, its buffer fp and
\* the record of final states hold whatever was there
Entered(progs, fill) ==
    /\ h_test_vectors = TestVectors
    /\ ops = [p \in Procs |-> OpsOf(progs[p])]
    /\ imms = [p \in Procs |-> ImmsOf(progs[p])]
    /\ n = [p \in Procs |-> LenOf(progs[p])]
    /\ inv = [p \in Procs |->
                [pc |-> "vec", v |-> 0, i |-> 0,
                 s |-> JunkState(fill[p]),
                 fp |-> JunkBuffer(fill[p]),
                 final |-> [x \in 0..(NUM_VECTORS - 1) |-> JunkState(fill[p])]]]

FpFrame ==
    /\ UNCHANGED tableVars
    /\ UNCHANGED callVars
    /\ UNCHANGED <<h_test_vectors, ops, imms, n>>

\* for (v ...; v < NUM_VECTORS; ...) { Z80State s = h_test_vectors[v]; and
\* entry to h_exec_seq: i = 0
FpBegin(p) ==
    /\ inv[p].pc = "vec"
    /\ inv[p].v < NUM_VECTORS
    /\ inv' = [inv EXCEPT ![p].s = h_test_vectors[inv[p].v], ![p].i = 0, ![p].pc = "seq"]
    /\ FpFrame

\* h_exec_seq: one iteration, h_exec_instruction(s, ops[i], imms[i])
FpExecStep(p) ==
    /\ inv[p].pc = "seq"
    /\ inv[p].i < n[p]
    /\ inv' = [inv EXCEPT
                 ![p].s = h_exec_instruction(inv[p].s, ops[p][inv[p].i], imms[p][inv[p].i]),
                 ![p].i = inv[p].i + 1]
    /\ FpFrame

\* h_exec_seq returned: the register image goes to fp at off = v * FP_SIZE; v++
FpStore(p) ==
    /\ inv[p].pc = "seq"
    /\ ~(inv[p].i < n[p])
    /\ inv' = [inv EXCEPT
                 ![p].fp = StoreImage(inv[p].fp, inv[p].v * FP_SIZE, inv[p].s),
                 ![p].final[inv[p].v] = inv[p].s,
                 ![p].v = inv[p].v + 1,
                 ![p].pc = "vec"]
    /\ FpFrame

\* the loop over the vectors ends and h_fingerprint returns
FpReturn(p) ==
    /\ inv[p].pc = "vec"
    /\ ~(inv[p].v < NUM_VECTORS)
    /\ inv' = [inv EXCEPT ![p].pc = "done"]
    /\ FpFrame

Done(p) == inv[p].pc = "done"

\* invocations on one and the same sequence, interleaved in any order
InitFp ==
    /\ TablesReady
    /\ CallerIdle
    /\ \E prog \in Programs, fill \in [Procs -> JunkBytes] :
          Entered([p \in Procs |-> prog], fill)

NextFp ==
    \E p \in Procs : FpBegin(p) \/ FpExecStep(p) \/ FpStore(p) \/ FpReturn(p)

SpecFp == InitFp /\ [][NextFp]_vars

(***************************************************************************)
(* C5: invocations of fingerprint on the same sequence, interleaved in any *)
(* order, each with its private state, end with byte-identical 80-byte     *)
(* digests, and none modifies the seed vectors or the flag tables.         *)
(***************************************************************************)
C5_FingerprintDeterministic ==
    /\ h_test_vectors = TestVectors
    /\ h_sz53 = BuiltSz53 /\ h_sz53p = BuiltSz53p /\ h_parity = BuiltParity
    /\ \A p \in Procs, q \in Procs :
          (Done(p) /\ Done(q)) =>
              /\ DOMAIN inv[p].fp = 0..79
              /\ \A x \in 0..79 : inv[p].fp[x] \in Byte
              /\ inv[p].fp = inv[q].fp

\* both invocations of <<INC A, INC SP>> finished, from different junk, with
\* the same digest
C5_Witness ==
    /\ Done(1) /\ Done(2)
    /\ n[1] = 2 /\ ops[1][0] = OP_INC_START /\ ops[1][1] = OP_16INC_START + 3
    /\ inv[1].fp = inv[2].fp
    /\ inv[1].fp[10] = 0 /\ inv[1].fp[11] = 81 /\ inv[1].fp[19] = 0
    /\ inv[1].fp[79] = 0

\* two invocations, one after the other, on any two sequences
InitFpPair ==
    /\ TablesReady
    /\ CallerIdle
    /\ \E progs \in [Procs -> Programs] :
          Entered(progs, [p \in Procs |-> IF p = 1 THEN 0 ELSE 204])

Turn(p) == \A q \in Procs : q < p => Done(q)

NextFpPair ==
    \E p \in Procs : Turn(p) /\ (FpBegin(p) \/ FpExecStep(p) \/ FpStore(p) \/ FpReturn(p))

SpecFpPair == InitFpPair /\ [][NextFpPair]_vars

(***************************************************************************)
(* C10: two sequences have byte-identical fingerprints if and only if, for *)
(* each of the 8 seed vectors, the states execute_sequence reaches are     *)
(* equal under states_equal with an empty dead-flag mask; so sequences     *)
(* whose final accumulator differs on a seed never share a fingerprint.    *)
(***************************************************************************)
C10_FingerprintLossless ==
    (Done(1) /\ Done(2)) =>
        /\ (inv[1].fp = inv[2].fp) <=>
              (\A x \in 0..(NUM_VECTORS - 1) :
                   h_states_equal(inv[1].final[x], inv[2].final[x], 0))
        /\ (\E x \in 0..(NUM_VECTORS - 1) :
                inv[1].final[x].r[REG_A] # inv[2].final[x].r[REG_A])
              => inv[1].fp # inv[2].fp

\* <<INC A>> against <<NOP>>: the accumulators differ on seed 0 and so do the digests
C10_Witness ==
    /\ Done(1) /\ Done(2)
    /\ n[1] = 1 /\ ops[1][0] = OP_INC_START
    /\ n[2] = 1 /\ ops[2][0] = OP_NOP
    /\ inv[1].final[0].r[REG_A] = 1 /\ inv[2].final[0].r[REG_A] = 0
    /\ inv[1].fp # inv[2].fp

====
